---- MODULE Spec2Model ----
(***************************************************************************)
(* Model of the quaketracker scripts: the magnitude-coloured variant        *)
(* (src/script.js) and the depth-coloured variant (src/unnamed/part_000).   *)
(*                                                                         *)
(* Numbers are fixed-point: a JavaScript number x is the integer x * Scale. *)
(* A JavaScript value that may be null or undefined is a record             *)
(* [t, v] with t in {"num", "null", "undefined"}.                          *)
(* A radius is kept in units of 1 / RadiusScale so that m * m * 0.5 is       *)
(* exact.                                                                   *)
(***************************************************************************)
EXTENDS Integers, Sequences, FiniteSets, TLC

\* ---------------------------------------------------------------- bounds
Scale == 10
MaxNeg == 20
MaxVal == 310
MaxFeatures == 3
MaxLiveFeatures == 2

RadiusScale == 2 * Scale * Scale

\* ---------------------------------------------------------------- values
Num(k) == [t |-> "num", v |-> k]
Null == [t |-> "null", v |-> 0]
Undef == [t |-> "undefined", v |-> 0]

Variants == {"depth", "magnitude"}

\* x === null || typeof x === 'undefined'
IsNullish(x) == x.t \in {"null", "undefined"}

\* x > n and x >= n for a whole number n: null converts to 0, undefined to
\* NaN, and every comparison with NaN is false.
JsGt(x, n) ==
    CASE x.t = "undefined" -> FALSE
      [] x.t = "null" -> 0 > n * Scale
      [] OTHER -> x.v > n * Scale

JsGe(x, n) ==
    CASE x.t = "undefined" -> FALSE
      [] x.t = "null" -> 0 >= n * Scale
      [] OTHER -> x.v >= n * Scale

JsLt(x, n) ==
    CASE x.t = "undefined" -> FALSE
      [] x.t = "null" -> 0 < n * Scale
      [] OTHER -> x.v < n * Scale

\* ------------------------------------------------------- calculateRadius
Max(a, b) == IF a >= b THEN a ELSE b

calculateRadius_noFloor(magnitude) ==
    IF IsNullish(magnitude) THEN 3 * RadiusScale
    ELSE IF JsLt(magnitude, 0) THEN 2 * RadiusScale
    ELSE magnitude.v * magnitude.v

calculateRadius(magnitude) ==
    IF IsNullish(magnitude) THEN 3 * RadiusScale
    ELSE IF JsLt(magnitude, 0) THEN 2 * RadiusScale
    ELSE Max(magnitude.v * magnitude.v, 3 * RadiusScale)

\* --------------------------------------------------------------- getColor
getColorDepth_inclusive(depth) ==
    IF JsGe(depth, 300) THEN "#b30000"
    ELSE IF JsGe(depth, 150) THEN "#e34a33"
    ELSE IF JsGe(depth, 70) THEN "#fc8d59"
    ELSE IF JsGe(depth, 30) THEN "#fdbb84"
    ELSE IF JsGe(depth, 10) THEN "#fee8c8"
    ELSE "#fff7ec"

getColorDepth(depth) ==
    IF JsGt(depth, 300) THEN "#b30000"
    ELSE IF JsGt(depth, 150) THEN "#e34a33"
    ELSE IF JsGt(depth, 70) THEN "#fc8d59"
    ELSE IF JsGt(depth, 30) THEN "#fdbb84"
    ELSE IF JsGt(depth, 10) THEN "#fee8c8"
    ELSE "#fff7ec"

getColorMag_exclusive(magnitude) ==
    IF IsNullish(magnitude) THEN "#cccccc"
    ELSE IF JsGt(magnitude, 8) THEN "#800026"
    ELSE IF JsGt(magnitude, 6) THEN "#BD0026"
    ELSE IF JsGt(magnitude, 5) THEN "#E31A1C"
    ELSE IF JsGt(magnitude, 4) THEN "#FD8D3C"
    ELSE IF JsGt(magnitude, 2) THEN "#FEB24C"
    ELSE "#FFEDA0"

getColorMag_unordered(magnitude) ==
    IF IsNullish(magnitude) THEN "#cccccc"
    ELSE IF JsGe(magnitude, 8) THEN "#800026"
    ELSE IF JsGe(magnitude, 6) THEN "#BD0026"
    ELSE IF JsGe(magnitude, 4) THEN "#FD8D3C"
    ELSE IF JsGe(magnitude, 5) THEN "#E31A1C"
    ELSE IF JsGe(magnitude, 2) THEN "#FEB24C"
    ELSE "#FFEDA0"

getColorMag(magnitude) ==
    IF IsNullish(magnitude) THEN "#cccccc"
    ELSE IF JsGe(magnitude, 8) THEN "#800026"
    ELSE IF JsGe(magnitude, 6) THEN "#BD0026"
    ELSE IF JsGe(magnitude, 5) THEN "#E31A1C"
    ELSE IF JsGe(magnitude, 4) THEN "#FD8D3C"
    ELSE IF JsGe(magnitude, 2) THEN "#FEB24C"
    ELSE "#FFEDA0"

getColor(variant_, x) ==
    IF variant_ = "depth" THEN getColorDepth(x) ELSE getColorMag(x)

\* ------------------------------------------------------------ createLegend
gradesDepth == <<-10, 10, 30, 70, 150, 300>>
gradesMag == <<0, 2, 4, 5, 6, 8>>

grades(variant_) == IF variant_ = "depth" THEN gradesDepth ELSE gradesMag

\* One element of the legendContent array.  The title is the h4 element;
\* every other element is a swatch <i style="background:color"></i> followed
\* by the text from, then either "&ndash;" and to, or "+".
LegendTitle(text) ==
    [tag |-> "h4", text |-> text, color |-> "", from |-> 0, sep |-> "", to |-> 0]

\* `${from}${to ? '&ndash;' + to : '+'}`: to is grades[i + 1], which is
\* undefined past the end of the array; undefined and 0 are both falsy.
LegendItem(g, i, color) ==
    LET hasTo == i + 1 <= Len(g) /\ g[i + 1] # 0
    IN [tag |-> "i", text |-> "", color |-> color, from |-> g[i],
        sep |-> IF hasTo THEN "&ndash;" ELSE "+",
        to |-> IF hasTo THEN g[i + 1] ELSE 0]

createLegendDepth_noOffset ==
    <<LegendTitle("Depth (km)")>> \o
    [i \in 1..Len(gradesDepth) |->
        LegendItem(gradesDepth, i, getColorDepth(Num(gradesDepth[i] * Scale)))]

createLegendDepth ==
    <<LegendTitle("Depth (km)")>> \o
    [i \in 1..Len(gradesDepth) |->
        LegendItem(gradesDepth, i, getColorDepth(Num((gradesDepth[i] + 1) * Scale)))]

createLegendMag_shortLoop ==
    <<LegendTitle("Magnitude")>> \o
    [i \in 1..(Len(gradesMag) - 1) |->
        LegendItem(gradesMag, i, getColorMag(Num(gradesMag[i] * Scale)))]

createLegendMag ==
    <<LegendTitle("Magnitude")>> \o
    [i \in 1..Len(gradesMag) |->
        LegendItem(gradesMag, i, getColorMag(Num(gradesMag[i] * Scale)))]

createLegend(variant_) ==
    IF variant_ = "depth" THEN createLegendDepth ELSE createLegendMag

\* ------------------------------------------------------------------ state
VARIABLES
    variant,      \* which script the page loads: "depth" or "magnitude"
    protocol,     \* window.location.protocol
    response,     \* what the single fetch will produce
    pc,           \* position in the promise chain
    error,        \* the rejection reason travelling down the chain
    loading,      \* loadingElement is displayed
    markers,      \* circle markers added to the map, in order of addition
    legend,       \* legendElement content: <<>> until createLegend sets it
    mapContent,   \* mapElement content
    log,          \* DOM / map / console effects, in program order
    fetchCount,   \* number of fetch() calls issued
    arg,          \* argument of a direct call of the pure helpers
    radiusOut,    \* result of calculateRadius(arg), or NotCalled
    colorOut      \* result of getColor(arg), or NotCalled

vars == <<variant, protocol, response, pc, error, loading, markers, legend,
          mapContent, log, fetchCount, arg, radiusOut, colorOut>>

cycleVars == <<protocol, response, pc, error, loading, markers,
               mapContent, log, fetchCount>>

callVars == <<arg, radiusOut, colorOut>>

NotCalled == "not called"
NotCalledRadius == -1

\* ------------------------------------------------------------------ inputs
MagVals == {Null, Undef, Num(-(Scale \div 2)), Num(7 * Scale + 2)}
DepthVals == {Null, Undef, Num(35 * Scale + 4)}

\* A feature of the feed.  geometry is "ok" when feature.geometry and
\* feature.geometry.coordinates are both truthy.  feature.properties is
\* always an object, as in the USGS feed.
Features ==
    [geometry : {"ok"}, mag : MagVals, depth : DepthVals]
    \cup [geometry : {"nogeometry", "nocoords"}, mag : {Null}, depth : {Undef}]

FeatureSeqsUpTo(max) == UNION {[1..n -> Features] : n \in 0..max}
FeatureSeqs == FeatureSeqsUpTo(MaxFeatures)

\* The body of a successful response after response.json().
DataValuesUpTo(max) ==
    [kind : {"null", "nofeatures", "notarray"}, features : {<<>>}]
    \cup [kind : {"features"}, features : FeatureSeqsUpTo(max)]

DataValues == DataValuesUpTo(MaxFeatures)

ResponsesUpTo(max) ==
    [kind : {"network"}, mentionsFetch : BOOLEAN, data : {[kind |-> "null", features |-> <<>>]}]
    \cup [kind : {"http", "parse"}, mentionsFetch : {FALSE}, data : {[kind |-> "null", features |-> <<>>]}]
    \cup [kind : {"ok"}, mentionsFetch : {FALSE}, data : DataValuesUpTo(max)]

Responses == ResponsesUpTo(MaxFeatures)

NoError == [name |-> "none", mentionsFetch |-> FALSE]

\* ----------------------------------------------------------------- tooltip
\* Number.prototype.toFixed(1): sign, then the integer n for which n / 10 is
\* closest to |x| (the larger n on a tie), printed with one decimal.
ToFixed1(k) ==
    LET a == IF k < 0 THEN -k ELSE k
        n == (2 * 10 * a + Scale) \div (2 * Scale)
    IN [na |-> FALSE, neg |-> k < 0, whole |-> n \div 10, tenth |-> n % 10]

NA == [na |-> TRUE, neg |-> FALSE, whole |-> 0, tenth |-> 0]

Unbound == [bound |-> FALSE, mag |-> NA, depth |-> NA]

\* x !== null ? x.toFixed(1) : 'N/A' throws a TypeError when x is undefined.
Throws(x) == x.t = "undefined"
Text(x) == IF x.t = "null" THEN NA ELSE ToFixed1(x.v)

Event(op, i) == [op |-> op, i |-> i]

\* ---------------------------------------------------- addEarthquakeMarkers
\* One call of the forEach callback on features[i]; st is
\* [markers, log, error].  The marker is added to the map before the tooltip
\* text is built, so a throw in the template literal leaves the marker on the
\* map without a tooltip.
Callback(v, f, i, st) ==
    IF f.geometry = "ok"
    THEN LET m == [feature |-> i,
                   radius |-> calculateRadius(f.mag),
                   fillColor |-> getColor(v, IF v = "depth" THEN f.depth ELSE f.mag),
                   tooltip |-> Unbound]
             added == [st EXCEPT !.markers = Append(@, m),
                                 !.log = Append(@, Event("addMarker", i))]
         IN IF Throws(f.mag) \/ Throws(f.depth)
            THEN [added EXCEPT !.error = [name |-> "TypeError", mentionsFetch |-> FALSE]]
            ELSE [added EXCEPT
                    !.markers[Len(added.markers)].tooltip =
                        [bound |-> TRUE, mag |-> Text(f.mag), depth |-> Text(f.depth)],
                    !.log = Append(@, Event("bindTooltip", i))]
    ELSE [st EXCEPT !.log = Append(@, Event("warn", i))]

RECURSIVE forEach(_, _, _, _)
forEach(v, features, i, st) ==
    IF i > Len(features) THEN st
    ELSE LET r == Callback(v, features[i], i, st)
         IN IF r.error.name # "none" THEN r
            ELSE forEach(v, features, i + 1, r)

addEarthquakeMarkers(v, features, st) == forEach(v, features, 1, st)

\* data && data.features && Array.isArray(data.features)
HasFeaturesArray(data) == data.kind = "features"

\* -------------------------------------------------------------- load cycle
CycleInitFrom(responses) ==
    /\ variant \in Variants
    /\ protocol \in {"file:", "https:"}
    /\ response \in responses
    /\ pc = "fetching"
    /\ error = NoError
    /\ loading = TRUE
    /\ markers = <<>>
    /\ legend = <<>>
    /\ mapContent = [kind |-> "map", hint |-> ""]
    /\ log = <<>>
    /\ fetchCount = 1

CycleInit == CycleInitFrom(Responses)

Init ==
    /\ CycleInit
    /\ arg = Null
    /\ radiusOut = NotCalledRadius
    /\ colorOut = NotCalled

\* The fetch promise settles: rejected with a TypeError on a network
\* failure, fulfilled with a response otherwise.
FetchSettle ==
    /\ pc = "fetching"
    /\ IF response.kind = "network"
       THEN /\ pc' = "catch"
            /\ error' = [name |-> "TypeError", mentionsFetch |-> response.mentionsFetch]
       ELSE /\ pc' = "thenResponse"
            /\ error' = error
    /\ UNCHANGED <<variant, protocol, response, loading, markers, legend,
                   mapContent, log, fetchCount, callVars>>

\* .then(response => ...): throws on a non-OK status, else returns
\* response.json(), which rejects with a SyntaxError on an unparsable body.
ThenResponse ==
    /\ pc = "thenResponse"
    /\ CASE response.kind = "http" ->
              /\ pc' = "catch"
              /\ error' = [name |-> "Error", mentionsFetch |-> FALSE]
         [] response.kind = "parse" ->
              /\ pc' = "catch"
              /\ error' = [name |-> "SyntaxError", mentionsFetch |-> FALSE]
         [] OTHER ->
              /\ pc' = "thenData"
              /\ error' = error
    /\ UNCHANGED <<variant, protocol, response, loading, markers, legend,
                   mapContent, log, fetchCount, callVars>>

\* .then(data => ...): hides the loading indicator, then either adds the
\* markers and creates the legend, or replaces the map content by a message.
ThenData ==
    /\ pc = "thenData"
    /\ loading' = FALSE
    /\ LET st0 == [markers |-> markers,
                   log |-> Append(log, Event("hideLoading", 0)),
                   error |-> NoError]
       IN IF HasFeaturesArray(response.data)
          THEN LET r == addEarthquakeMarkers(variant, response.data.features, st0)
               IN /\ markers' = r.markers
                  /\ mapContent' = mapContent
                  /\ IF r.error.name = "none"
                     THEN /\ legend' = createLegend(variant)
                          /\ log' = Append(r.log, Event("createLegend", 0))
                          /\ error' = error
                          /\ pc' = "done"
                     ELSE /\ legend' = legend
                          /\ log' = r.log
                          /\ error' = r.error
                          /\ pc' = "catch"
          ELSE /\ markers' = markers
               /\ legend' = legend
               /\ mapContent' = [kind |-> "noFeaturesMessage", hint |-> ""]
               /\ log' = Append(st0.log, Event("setMapContent", 0))
               /\ error' = error
               /\ pc' = "done"
    /\ UNCHANGED <<variant, protocol, response, fetchCount, callVars>>

\* .catch(error => ...): hides the loading indicator and replaces the map
\* content by the error message with the hint chosen from the protocol and
\* the error.
ErrorHint ==
    IF protocol = "file:" THEN "localFile"
    ELSE IF error.name = "TypeError" /\ error.mentionsFetch THEN "network"
    ELSE "general"

CatchHandler_retry ==
    /\ pc = "catch"
    /\ loading' = FALSE
    /\ fetchCount' = fetchCount + 1
    /\ log' = Append(log, Event("hideLoading", 0))
    /\ pc' = "done"
    /\ UNCHANGED <<variant, protocol, response, error, markers, legend,
                   mapContent, callVars>>

CatchHandler_keepLoading ==
    /\ pc = "catch"
    /\ loading' = loading
    /\ mapContent' = [kind |-> "errorMessage", hint |-> ErrorHint]
    /\ log' = Append(log, Event("setMapContent", 0))
    /\ pc' = "done"
    /\ UNCHANGED <<variant, protocol, response, error, markers, legend,
                   fetchCount, callVars>>

CatchHandler ==
    /\ pc = "catch"
    /\ loading' = FALSE
    /\ mapContent' = [kind |-> "errorMessage", hint |-> ErrorHint]
    /\ log' = Append(Append(log, Event("hideLoading", 0)), Event("setMapContent", 0))
    /\ pc' = "done"
    /\ UNCHANGED <<variant, protocol, response, error, markers, legend,
                   fetchCount, callVars>>

Next == FetchSettle \/ ThenResponse \/ ThenData \/ CatchHandler

Spec == Init /\ [][Next]_vars

\* Once the fetch promise has settled, the reactions registered by then and
\* catch are run by the microtask queue; the fetch itself may never settle.
LiveInit ==
    /\ CycleInitFrom(ResponsesUpTo(MaxLiveFeatures))
    /\ arg = Null
    /\ radiusOut = NotCalledRadius
    /\ colorOut = NotCalled

LiveSpec ==
    /\ LiveInit /\ [][Next]_vars
    /\ WF_vars(ThenResponse) /\ WF_vars(ThenData) /\ WF_vars(CatchHandler)

\* ------------------------------------------------ direct helper calls
ArgValues == {Null, Undef} \cup {Num(k) : k \in (-(MaxNeg * Scale))..(MaxVal * Scale)}

InitFn ==
    /\ variant \in Variants
    /\ protocol = "https:"
    /\ response = [kind |-> "ok", mentionsFetch |-> FALSE,
                   data |-> [kind |-> "features", features |-> <<>>]]
    /\ pc = "idle"
    /\ error = NoError
    /\ loading = TRUE
    /\ markers = <<>>
    /\ legend = <<>>
    /\ mapContent = [kind |-> "map", hint |-> ""]
    /\ log = <<>>
    /\ fetchCount = 0
    /\ arg \in ArgValues
    /\ radiusOut = NotCalledRadius
    /\ colorOut = NotCalled

CallCalculateRadius ==
    /\ radiusOut = NotCalledRadius
    /\ radiusOut' = calculateRadius(arg)
    /\ UNCHANGED <<variant, cycleVars, legend, arg, colorOut>>

CallGetColor ==
    /\ colorOut = NotCalled
    /\ colorOut' = getColor(variant, arg)
    /\ UNCHANGED <<variant, cycleVars, legend, arg, radiusOut>>

CallCreateLegend ==
    /\ legend = <<>>
    /\ legend' = createLegend(variant)
    /\ UNCHANGED <<variant, cycleVars, callVars>>

NextFn == CallCalculateRadius \/ CallGetColor \/ CallCreateLegend

SpecFn == InitFn /\ [][NextFn]_vars

\* ------------------------------------------------------------------ claims
IsNum == arg.t = "num"
ColorCalled == colorOut # NotCalled
RadiusCalled == radiusOut # NotCalledRadius
LegendRendered == legend # <<>>

\* k lies strictly inside the band labelled by entry i of the grades g.
InBand(g, i, k) ==
    /\ g[i] * Scale < k
    /\ i < Len(g) => k < g[i + 1] * Scale

\* C1: in both variants the swatch color of legend entry i is the color
\* getColor returns for every value strictly inside the band of entry i
\* (above grades[i] and, except for the last entry, below grades[i + 1]).
C1_LegendAgreesWithGetColor ==
    (LegendRendered /\ ColorCalled /\ IsNum) =>
        \A i \in 1..Len(grades(variant)) :
            InBand(grades(variant), i, arg.v) => legend[i + 1].color = colorOut

C1_Witness ==
    /\ LegendRendered /\ ColorCalled /\ IsNum
    /\ variant = "depth"
    /\ InBand(gradesDepth, 2, arg.v)
    /\ legend[3].color = "#fee8c8"

\* C5: calculateRadius returns 3 for a null or undefined magnitude, 2 for a
\* negative one and max(m * m * 0.5, 3) otherwise; so the result is at least
\* 2, is 3 whenever 0 <= m and m * m <= 6, and is strictly larger for every
\* larger magnitude once m * m > 6.
C5_CalculateRadius ==
    RadiusCalled =>
        /\ IsNullish(arg) => radiusOut = 3 * RadiusScale
        /\ (IsNum /\ arg.v < 0) => radiusOut = 2 * RadiusScale
        /\ (IsNum /\ arg.v >= 0) =>
              /\ radiusOut >= arg.v * arg.v
              /\ radiusOut >= 3 * RadiusScale
              /\ radiusOut \in {arg.v * arg.v, 3 * RadiusScale}
        /\ radiusOut >= 2 * RadiusScale
        /\ (IsNum /\ arg.v >= 0 /\ arg.v * arg.v <= 6 * Scale * Scale) =>
              radiusOut = 3 * RadiusScale
        /\ (IsNum /\ arg.v > 0 /\ arg.v * arg.v > 6 * Scale * Scale) =>
              \A k \in (arg.v + 1)..(MaxVal * Scale) :
                  calculateRadius(Num(k)) > radiusOut

C5_Witness ==
    /\ RadiusCalled
    /\ arg = Num(7 * Scale + 2)
    /\ radiusOut > 3 * RadiusScale
    /\ 100 * radiusOut = 2592 * RadiusScale

\* C6: depth-basis getColor is total with bands exclusive at the boundary:
\* above 300 #b30000, above 150 #e34a33, above 70 #fc8d59, above 30 #fdbb84,
\* above 10 #fee8c8, else #fff7ec; a depth on a threshold gets the band
\* below it, and a null or absent depth gets #fff7ec.
C6_DepthColor ==
    (variant = "depth" /\ ColorCalled) =>
        /\ (IsNum /\ arg.v > 300 * Scale) => colorOut = "#b30000"
        /\ (IsNum /\ arg.v > 150 * Scale /\ arg.v <= 300 * Scale) => colorOut = "#e34a33"
        /\ (IsNum /\ arg.v > 70 * Scale /\ arg.v <= 150 * Scale) => colorOut = "#fc8d59"
        /\ (IsNum /\ arg.v > 30 * Scale /\ arg.v <= 70 * Scale) => colorOut = "#fdbb84"
        /\ (IsNum /\ arg.v > 10 * Scale /\ arg.v <= 30 * Scale) => colorOut = "#fee8c8"
        /\ (IsNum /\ arg.v <= 10 * Scale) => colorOut = "#fff7ec"
        /\ IsNullish(arg) => colorOut = "#fff7ec"

C6_Witness ==
    /\ variant = "depth" /\ ColorCalled
    /\ arg = Num(300 * Scale)
    /\ colorOut = "#e34a33"

MagColors ==
    {"#cccccc", "#800026", "#BD0026", "#E31A1C", "#FD8D3C", "#FEB24C", "#FFEDA0"}

\* C7: magnitude-basis getColor is total with bands inclusive at the
\* boundary: null or undefined gives #cccccc; at least 8 #800026, at least 6
\* #BD0026, at least 5 #E31A1C, at least 4 #FD8D3C, at least 2 #FEB24C, else
\* #FFEDA0; the output is always one of these seven strings.
C7_MagnitudeColor ==
    (variant = "magnitude" /\ ColorCalled) =>
        /\ IsNullish(arg) => colorOut = "#cccccc"
        /\ (IsNum /\ arg.v >= 8 * Scale) => colorOut = "#800026"
        /\ (IsNum /\ arg.v >= 6 * Scale /\ arg.v < 8 * Scale) => colorOut = "#BD0026"
        /\ (IsNum /\ arg.v >= 5 * Scale /\ arg.v < 6 * Scale) => colorOut = "#E31A1C"
        /\ (IsNum /\ arg.v >= 4 * Scale /\ arg.v < 5 * Scale) => colorOut = "#FD8D3C"
        /\ (IsNum /\ arg.v >= 2 * Scale /\ arg.v < 4 * Scale) => colorOut = "#FEB24C"
        /\ (IsNum /\ arg.v < 2 * Scale) => colorOut = "#FFEDA0"
        /\ colorOut \in MagColors

C7_Witness ==
    /\ variant = "magnitude" /\ ColorCalled
    /\ arg = Num(6 * Scale)
    /\ colorOut = "#BD0026"

\* C8: createLegend produces the title followed by exactly one entry per
\* breakpoint, in breakpoint order; every entry but the last is labelled
\* from, "&ndash;", next breakpoint, and only the last is labelled from "+"
\* (300+ in the depth variant, 8+ in the magnitude variant).
C8_LegendEntries ==
    LegendRendered =>
        LET g == grades(variant)
        IN /\ Len(g) = 6
           /\ Len(legend) = Len(g) + 1
           /\ legend[1].tag = "h4"
           /\ \A i \in 1..Len(g) :
                 /\ legend[i + 1].tag = "i"
                 /\ legend[i + 1].from = g[i]
                 /\ i < Len(g) => /\ legend[i + 1].sep = "&ndash;"
                                  /\ legend[i + 1].to = g[i + 1]
                 /\ i = Len(g) => legend[i + 1].sep = "+"
           /\ legend[Len(legend)].from = (IF variant = "depth" THEN 300 ELSE 8)

C8_Witness ==
    /\ LegendRendered
    /\ variant = "magnitude"
    /\ Len(legend) = 7
    /\ legend[7].sep = "+"

\* The color scale of each variant as a table, highest threshold first.
ScaleTable(v) ==
    IF v = "depth"
    THEN <<[t |-> 300, color |-> "#b30000"], [t |-> 150, color |-> "#e34a33"],
           [t |-> 70, color |-> "#fc8d59"], [t |-> 30, color |-> "#fdbb84"],
           [t |-> 10, color |-> "#fee8c8"]>>
    ELSE <<[t |-> 8, color |-> "#800026"], [t |-> 6, color |-> "#BD0026"],
           [t |-> 5, color |-> "#E31A1C"], [t |-> 4, color |-> "#FD8D3C"],
           [t |-> 2, color |-> "#FEB24C"]>>

LowestColor(v) == IF v = "depth" THEN "#fff7ec" ELSE "#FFEDA0"

\* The color of the highest threshold among the entries in matching, or the
\* lowest-band color when none matches.
HighestMatch(v, matching) ==
    IF matching = {} THEN LowestColor(v)
    ELSE LET T == ScaleTable(v)
             j == CHOOSE a \in matching : \A b \in matching : T[a].t >= T[b].t
         IN T[j].color

MatchGe(v, k) == {j \in 1..Len(ScaleTable(v)) : k >= ScaleTable(v)[j].t * Scale}
MatchGt(v, k) == {j \in 1..Len(ScaleTable(v)) : k > ScaleTable(v)[j].t * Scale}

\* C10 as stated: in each variant getColor returns, for every number, the
\* color of the highest threshold t with value >= t, or the lowest-band
\* color when no threshold matches.
C10_FirstMatchGe ==
    (ColorCalled /\ IsNum) => colorOut = HighestMatch(variant, MatchGe(variant, arg.v))

\* C10 as amended: getColor returns, for every number, the color of the
\* highest threshold t that matches, or the lowest-band color when none
\* does, where t matches when value >= t in the magnitude variant and when
\* value > t in the depth variant.
C10_FirstMatch ==
    (ColorCalled /\ IsNum) =>
        colorOut = HighestMatch(variant,
                                IF variant = "depth" THEN MatchGt(variant, arg.v)
                                ELSE MatchGe(variant, arg.v))

C10_Witness ==
    /\ ColorCalled
    /\ variant = "depth"
    /\ arg = Num(150 * Scale)
    /\ colorOut = "#fc8d59"

\* ---------------------------------------------------- load cycle claims
FeedFeatures == response.data.features
ValidFeed == response.kind = "ok" /\ HasFeaturesArray(response.data)

Positions(op) == {j \in 1..Len(log) : log[j].op = op}
Count(op) == Cardinality(Positions(op))

MarkerFor(i) == {j \in 1..Len(markers) : markers[j].feature = i}

\* C2: for every feature with geometry and coordinates, a null or undefined
\* magnitude or depth raises no error: the marker is added, its tooltip is
\* bound showing N/A for the absent value, and the load cycle does not end in
\* the error message.
C2_AbsentValuesHandled ==
    (pc = "done" /\ ValidFeed) =>
        \A i \in 1..Len(FeedFeatures) :
            LET f == FeedFeatures[i]
            IN (f.geometry = "ok" /\ (IsNullish(f.mag) \/ IsNullish(f.depth))) =>
                  /\ \E j \in MarkerFor(i) :
                        /\ markers[j].tooltip.bound
                        /\ IsNullish(f.mag) => markers[j].tooltip.mag = NA
                        /\ IsNullish(f.depth) => markers[j].tooltip.depth = NA
                  /\ mapContent.kind # "errorMessage"

\* C3: when some feature of a valid features array lacks geometry or
\* coordinates, exactly that feature is skipped with a warning, every other
\* feature gets one marker, and the load cycle completes with the legend
\* rendered and no error message.
C3_MalformedFeatureSkipped ==
    (pc = "done" /\ ValidFeed /\ \E i \in 1..Len(FeedFeatures) : FeedFeatures[i].geometry # "ok") =>
        /\ \A i \in 1..Len(FeedFeatures) :
              IF FeedFeatures[i].geometry = "ok"
              THEN /\ Cardinality(MarkerFor(i)) = 1
                   /\ \A j \in Positions("warn") : log[j].i # i
              ELSE /\ MarkerFor(i) = {}
                   /\ \E j \in Positions("warn") : log[j].i = i
        /\ LegendRendered
        /\ mapContent.kind = "map"

\* C9: in a load cycle with a valid features array, markers are added in
\* feed order, the legend is rendered exactly once and only after the last
\* marker, and no marker is added after the legend is rendered.
C9_MarkersThenLegend ==
    ValidFeed =>
        /\ \A j, k \in 1..Len(markers) :
              j < k => markers[j].feature < markers[k].feature
        /\ \A j \in Positions("addMarker") : \A k \in Positions("createLegend") : j < k
        /\ Count("createLegend") <= 1
        /\ pc = "done" => Count("createLegend") = 1

FatalResponse ==
    \/ response.kind \in {"network", "http"}
    \/ response.kind = "ok" /\ ~HasFeaturesArray(response.data)

\* C4: a network failure, a non-OK status or a successful response without a
\* features array is fatal to the load cycle: no marker is added, no legend
\* is rendered, the map content is replaced exactly once by a message, and no
\* second fetch is issued.
C4_FatalFailure ==
    FatalResponse =>
        /\ markers = <<>> /\ Count("addMarker") = 0
        /\ legend = <<>> /\ Count("createLegend") = 0
        /\ fetchCount = 1
        /\ Count("setMapContent") <= 1
        /\ pc = "done" =>
              /\ Count("setMapContent") = 1
              /\ mapContent.kind \in {"noFeaturesMessage", "errorMessage"}

C4_Witness ==
    /\ pc = "done"
    /\ response.kind = "http"
    /\ mapContent.kind = "errorMessage"
    /\ Count("setMapContent") = 1

\* C11: once the fetch has settled the loading indicator gets hidden in every
\* outcome (features rendered, no features array, HTTP / network / parse
\* failure, exception while processing features), it is never shown again,
\* and no final state of a load cycle leaves it visible.
C11_LoadingHidden ==
    /\ [](pc = "done" => ~loading)
    /\ [][~loading => ~loading']_vars
    /\ (pc # "fetching") ~> (pc = "done" /\ ~loading)

C11_Witness ==
    /\ pc = "done"
    /\ ~loading
    /\ ValidFeed
    /\ error.name = "TypeError"
    /\ Positions("hideLoading") # {}

====
